---- MODULE Spec2Model ----
(***************************************************************************)
(* Model of marvin.tools.query.results: the Results controller, its        *)
(* ResultSet page buffer, the marvintuple row type and its row merge.      *)
(*                                                                         *)
(* A row of the full result set is identified by its offset 0..N-1 in the  *)
(* order in which the data source returns it.  The page buffer `results'   *)
(* is the sequence of offsets it holds.                                    *)
(***************************************************************************)
EXTENDS Integers, Sequences, FiniteSets, TLC

\* ------------------------------------------------------------------ bounds
MaxTotal == 4      \* largest totalcount of the paging specification
MaxChunk == 2      \* largest chunk / limit a caller passes
MaxStart == 5      \* largest start a caller passes to getSubset
MaxCalls == 2      \* longest sequence of calls two controllers both answer
MaxParams == 5     \* longest list of requested columns
MaxRows == 3       \* most rows of a set a lookup is made in
MaxWalk == 6       \* largest totalcount of a walk through the pages

\* ------------------------------------------------------- program constants
GetAllRowLimit == 500000    \* getAll refuses above this many rows
GetAllColLimit == 25        \* getAll refuses above this many columns

\* ------------------------------------------------------------------ helpers
Min(a, b) == IF a < b THEN a ELSE b
Max(a, b) == IF a > b THEN a ELSE b

\* the offsets s, s+1, ..., e-1 as a sequence (empty when e <= s)
Range(s, e) == [i \in 1..(e - s) |-> s + i - 1]

SeqToSet(s) == {s[i] : i \in 1..Len(s)}

\* ------------------------------------------------------------------- state
VARIABLES
    mode,        \* self.mode: "local", "remote" or anything else ("auto")
    urlmap,      \* config.urlmap is set
    returntype,  \* self.returntype ("" is None)
    fp,          \* searchfilter, returnparams, _release, limit
    params,      \* self._params, the requested columns in order
    columns,     \* self.columns, the registry (full names in order)
    query,       \* self.query: "handle" (live query), "string" or "none"
    queryobj,    \* self._queryobj is set
    totalcount,  \* self.totalcount
    count,       \* self.count
    chunk,       \* self.chunk
    start,       \* self.start
    end,         \* self.end
    sortcol,     \* self.sortcol ("" is None)
    order,       \* self.order ("" is None)
    results,     \* self.results, as row offsets
    rs,          \* attributes of self.results when it is a ResultSet
    objects,     \* self.objects (<<>> is None or an empty list)
    last,        \* the call just made: operation, arguments, outcome
    archive,     \* the file at the save path
    restored,    \* the controller Results.restore returned
    rowA,        \* left operand of the last row merge
    rowB,        \* right operand of the last row merge
    rowSum,      \* what rowA + rowB gave
    trip,        \* the window a getNext left, while a getPrevious answers it
    replay,      \* the calls made on a local controller and what they left,
                 \* while a remote controller of the same query repeats them
    sent,        \* the request the last call sent, and the sort call before it
    built,       \* the last marvintuple call: the params, the raw row, the
                 \* row type and the row it gave
    looked,      \* the last ResultSet lookup: the rows, the key and the answer
    walk         \* the windows visited since construction and the rows fetched

fixed == <<mode, urlmap, returntype, fp, params, totalcount>>
files == <<archive, restored>>
merge == <<rowA, rowB, rowSum>>
hist  == <<trip, replay, sent, built, looked, walk>>
vars  == <<mode, urlmap, returntype, fp, params, columns, query, queryobj,
           totalcount, count, chunk, start, end, sortcol, order, results, rs,
           objects, last, archive, restored, rowA, rowB, rowSum, trip, replay,
           sent, built, looked, walk>>

\* ---------------------------------------------------------------- row type
\* marvintuple: the base identity fields, always present and first
DefaultFields == <<"mangaid", "plate", "plateifu", "ifu_name">>

\* the elements of s that are not in excl, in order
RECURSIVE SelectNotIn(_, _)
SelectNotIn(s, excl) ==
    IF s = <<>> THEN <<>>
    ELSE IF Head(s) \in excl THEN SelectNotIn(Tail(s), excl)
         ELSE <<Head(s)>> \o SelectNotIn(Tail(s), excl)

\* marvintuple: finalfields = default._fields + newcols
RowFields(ps) == DefaultFields \o SelectNotIn(ps, SeqToSet(DefaultFields))

\* a row type or a row: exc is "ok" or the exception raised
NoType == [exc |-> "", fields |-> <<>>]
NoValues == [exc |-> "", vals |-> <<>>]

\* marvintuple(name, params): namedtuple(name, finalfields) rejects a field
\* name that occurs twice
MarvinTuple(ps) ==
    LET f == RowFields(ps)
    IN  IF \E i, j \in 1..Len(f) : i # j /\ f[i] = f[j]
        THEN [exc |-> "ValueError", fields |-> <<>>]
        ELSE [exc |-> "ok", fields |-> f]

\* nt(*r): the values of the raw row are given to the fields by position
NewRow(type, raw) ==
    IF type.exc # "ok" THEN NoValues
    ELSE IF Len(raw) # Len(type.fields)
    THEN [exc |-> "TypeError", vals |-> <<>>]
    ELSE [exc |-> "ok", vals |-> raw]

\* the value a built row holds for the field name, 0 if it has no such field
FieldValue(type, row, name) ==
    IF \E i \in 1..Len(type.fields) : type.fields[i] = name
    THEN row.vals[CHOOSE i \in 1..Len(type.fields) : type.fields[i] = name]
    ELSE 0

\* ------------------------------------------------------------- data source
\* the value of column col in the row at offset i of the full result set
Val(col, i) ==
    IF col = "plateifu" THEN i
    ELSE IF col = "plate" THEN i \div 2
    ELSE (2 * i) % 3

\* insert row r into the sorted sequence s, after every row that does not
\* sort behind it (list.sort is stable, also with reverse=True)
RECURSIVE InsertSorted(_, _, _, _)
InsertSorted(s, r, col, reverse) ==
    IF s = <<>> THEN <<r>>
    ELSE LET h == Head(s)
             behind == IF reverse THEN Val(col, h) < Val(col, r)
                       ELSE Val(col, h) > Val(col, r)
         IN IF behind THEN <<r>> \o s
            ELSE <<h>> \o InsertSorted(Tail(s), r, col, reverse)

RECURSIVE SortRows(_, _, _)
SortRows(s, col, reverse) ==
    IF s = <<>> THEN <<>>
    ELSE InsertSorted(SortRows(SubSeq(s, 1, Len(s) - 1), col, reverse),
                      s[Len(s)], col, reverse)

\* a slice that takes its end as the last offset wanted: LIMIT e - s + 1
SliceInclusive(s, e) == Range(Min(s, totalcount), Min(e + 1, totalcount))

\* query.slice(s, e).all(): OFFSET s LIMIT e - s over the N rows
Slice(s, e) == Range(Min(s, totalcount), Min(e, totalcount))

\* query.from_self().all()
AllRows == Range(0, totalcount)

\* the rows the remote service holds for this query, in the order the request
\* asks for (no sort column: the order of the data source)
ServerRows(scol, ord) ==
    IF scol = "" THEN AllRows ELSE SortRows(AllRows, scol, ord = "desc")

\* answer of the getsubset route: rows start..end-1 of the ordered result
RemoteSubset(s, e, scol, ord) ==
    IF e <= s THEN <<>>
    ELSE IF scol = "" THEN Range(Min(s, totalcount), Min(e, totalcount))
    ELSE SubSeq(ServerRows(scol, ord), Min(s, totalcount) + 1,
                Min(e, totalcount))

\* answer of the querycubes route: the ordered result, cut at limit unless
\* return_all is set or no limit is given
RemoteQueryCubes(scol, ord, lim, returnAll) ==
    LET all == ServerRows(scol, ord)
    IN  IF returnAll \/ lim = 0 THEN all
        ELSE SubSeq(all, 1, Min(lim, totalcount))

\* ---------------------------------------------------------------- ResultSet
CeilDiv(a, b) == (a + b - 1) \div b

\* self.results is a plain list, not a ResultSet
NoSet == [isSet |-> FALSE, index |-> -1, count |-> 0, total |-> 0, pages |-> 0]

\* ResultSet.__init__ (index None is stored as 0); count > 0
NewResultSet(rows, index, cnt, total) ==
    [isSet |-> TRUE, index |-> index, count |-> cnt, total |-> total,
     pages |-> CeilDiv(total, cnt)]

\* what a step leaves in the buffer: exc is "ok" or the exception raised
Buffer(exc, rows, set, cnt, cols, reqs, fetched) ==
    [exc |-> exc, results |-> rows, rs |-> set, count |-> cnt,
     columns |-> cols, reqs |-> reqs, fetched |-> fetched]

Untouched(exc, reqs) == Buffer(exc, results, rs, count, columns, reqs, FALSE)

\* Results._makeNamedTuple(index) on the raw rows held in self.results:
\* the registry is rebuilt from _params, count is set, and ResultSet.__init__
\* divides total by count
MakeNamedTuple(rows, index, reqs) ==
    IF Len(rows) = 0
    THEN Buffer("ZeroDivisionError", rows, NoSet, 0, params, reqs, TRUE)
    ELSE Buffer("ok", rows, NewResultSet(rows, index, Len(rows), totalcount),
                Len(rows), params, reqs, TRUE)

\* Results._interaction(..., named_tuple=True, index=index): one request;
\* a transport failure raises before anything is assigned
Interaction(output, index, fail) ==
    IF fail THEN Untouched("MarvinError", 1)
    ELSE MakeNamedTuple(output, index, 1)

\* no request
NoRequest ==
    [route |-> "", start |-> 0, end |-> 0, limit |-> 0, sort |-> "",
     order |-> "", return_all |-> FALSE]

\* a getsubset request that leaves the sort out
SubsetParamsUnsorted(s, e) ==
    [route |-> "getsubset", start |-> s, end |-> e, limit |-> fp.limit,
     sort |-> "", order |-> "", return_all |-> FALSE]

\* params of the getsubset request of getNext, getPrevious and getSubset
SubsetParams(s, e) ==
    [route |-> "getsubset", start |-> s, end |-> e, limit |-> fp.limit,
     sort |-> sortcol, order |-> order, return_all |-> FALSE]

\* params of the querycubes request of sort
SortParams(remotename, ord) ==
    [route |-> "querycubes", start |-> 0, end |-> 0, limit |-> fp.limit,
     sort |-> remotename, order |-> ord, return_all |-> FALSE]

\* params of the querycubes request of getAll
GetAllParams ==
    [route |-> "querycubes", start |-> 0, end |-> 0, limit |-> fp.limit,
     sort |-> sortcol, order |-> order, return_all |-> TRUE]

\* what the remote service answers to a request
Service(p) ==
    IF p.route = "getsubset"
    THEN RemoteSubset(p.start, p.end, p.sort, p.order)
    ELSE RemoteQueryCubes(p.sort, p.order, p.limit, p.return_all)

\* the mode branch of getNext, getPrevious and getSubset for the window
\* [s, e): fail is a transport failure, negRaises tells whether the data
\* source rejects a negative LIMIT (e < s) or answers it with no rows
FetchWindow(s, e, fail, negRaises) ==
    IF mode = "local" THEN
        IF query # "handle" THEN Untouched("AttributeError", 0)
        ELSE IF e < s /\ negRaises THEN Untouched("DatabaseError", 0)
        ELSE IF Slice(s, e) # <<>> THEN MakeNamedTuple(Slice(s, e), s, 0)
        ELSE Buffer("ok", <<>>, NoSet, count, columns, 0, TRUE)
    ELSE IF mode = "remote" THEN
        IF ~urlmap THEN Untouched("MarvinError", 0)
        ELSE Interaction(Service(SubsetParams(s, e)), s, fail)
    ELSE Untouched("ok", 0)

\* ------------------------------------------------------------ calls
\* record of the call just made
Call(op, exc, msg, warns, fetched, reqs) ==
    [op |-> op, exc |-> exc, msg |-> msg, warns |-> warns,
     fetched |-> fetched, reqs |-> reqs]

NoCall == Call("init", "ok", "", {}, FALSE, 0)

\* arguments a caller passes; 0 stands for an omitted (None) argument
ChunkArgs == {-MaxChunk} \cup (0..MaxChunk)
StartArgs == (-1)..MaxStart

\* self.convertToTool() as getNext, getPrevious and getSubset call it when a
\* returntype is set: convertToTool(self, tooltype, **kwargs) is called
\* without its positional argument
ConvertAfterPaging == IF returntype # "" THEN "TypeError" ELSE "ok"

\* a count that is left as it was
CountKept(rows) == count

\* self.count = len(self.results)
CountOf(rows) == Len(rows)

\* the end of getNext / getPrevious, from the mode branch on: b is what the
\* mode branch left, [ns, ne) the new window
FinishPaging(op, b, ns, ne, warns) ==
    /\ results' = b.results
    /\ rs' = b.rs
    /\ columns' = b.columns
    /\ IF b.exc # "ok"
       THEN /\ count' = b.count
            /\ UNCHANGED <<start, end>>
            /\ last' = Call(op, b.exc, op, warns, b.fetched, b.reqs)
       ELSE /\ start' = ns
            /\ end' = ne
            /\ count' = CountOf(b.results)
            /\ last' = Call(op, ConvertAfterPaging, "", warns,
                            b.fetched, b.reqs)

\* a chunk check that takes the size of a negative chunk instead of
\* falling back to self.chunk
ChunkUsedAbs(c) == IF c < 0 THEN 0 - c ELSE IF c # 0 THEN c ELSE chunk

\* getNext / getPrevious: a negative chunk falls back to self.chunk, an
\* omitted one (0) keeps it
ChunkUsed(c) ==
    LET arg == IF c # 0 /\ c < 0 THEN chunk ELSE c
    IN  IF arg # 0 THEN arg ELSE chunk

\* getNext: newend = newstart + chunk, cut at totalcount
NextEnd(newchunk) ==
    IF end + newchunk > totalcount THEN totalcount ELSE end + newchunk

\* a getPrevious that does not stop at the beginning
PreviousStartUnclamped(newchunk) == start - newchunk

\* a getPrevious that steps back from self.end instead of self.start
PreviousStartFromEnd(newchunk) ==
    IF end - newchunk < 0 THEN 0 ELSE end - newchunk

\* getPrevious: newstart = newend - chunk, not below 0
PreviousStart(newchunk) ==
    IF start - newchunk < 0 THEN 0 ELSE start - newchunk

\* Results.getNext(chunk)
GetNext(c, fail, negRaises) ==
    LET newchunk == ChunkUsed(c)
        newstart == end
        newend   == NextEnd(newchunk)
        wneg     == IF c # 0 /\ c < 0 THEN {"chunk_negative"} ELSE {}
        wend     == IF end + newchunk > totalcount THEN {"reached_end"}
                    ELSE {}
    IN  /\ chunk' = newchunk
        /\ UNCHANGED <<fixed, objects,
                       files, merge, query, queryobj, sortcol, order>>
        /\ IF totalcount = count
           THEN /\ UNCHANGED <<columns, count, start, end, results, rs>>
                /\ last' = Call("getNext", "ok", "", wneg \cup {"have_all"},
                                FALSE, 0)
           ELSE FinishPaging("getNext",
                             FetchWindow(newstart, newend, fail, negRaises),
                             newstart, newend, wneg \cup wend)

\* Results.getPrevious(chunk)
GetPrevious(c, fail) ==
    LET newchunk == ChunkUsed(c)
        newend   == start
        newstart == PreviousStart(newchunk)
        wneg     == IF c # 0 /\ c < 0 THEN {"chunk_negative"} ELSE {}
        wstart   == IF start - newchunk < 0 THEN {"reached_beginning"}
                    ELSE {}
    IN  /\ chunk' = newchunk
        /\ UNCHANGED <<fixed, objects,
                       files, merge, query, queryobj, sortcol, order>>
        /\ IF totalcount = count
           THEN /\ UNCHANGED <<columns, count, start, end, results, rs>>
                /\ last' = Call("getPrevious", "ok", "",
                                wneg \cup {"have_all"}, FALSE, 0)
           ELSE FinishPaging("getPrevious",
                             FetchWindow(newstart, newend, fail, FALSE),
                             newstart, newend, wneg \cup wstart)

\* Results.getSubset(start, limit)
GetSubset(s, l, fail) ==
    LET lim0     == IF l = 0 THEN chunk ELSE l
        negative == lim0 < 0
        limit    == IF negative THEN chunk ELSE lim0
        newstart == IF s < 0 THEN 0 ELSE s
        newend   == newstart + limit
        warns    == IF negative THEN {"limit_negative"} ELSE {}
        b        == FetchWindow(newstart, newend, fail, FALSE)
    IN  /\ start' = newstart
        /\ end' = newend
        /\ chunk' = limit
        /\ UNCHANGED <<fixed, objects,
                       files, merge, query, queryobj, sortcol, order>>
        /\ results' = b.results
        /\ rs' = b.rs
        /\ columns' = b.columns
        /\ IF b.exc # "ok"
           THEN /\ count' = b.count
                /\ last' = Call("getSubset", b.exc, "getSubset", warns,
                                b.fetched, b.reqs)
           ELSE /\ count' = CountOf(b.results)
                /\ last' = Call("getSubset", ConvertAfterPaging, "",
                                warns, b.fetched, b.reqs)

\* a getAll that fetches the window again instead of the whole result
FromSelfWindow == Slice(start, end)

\* getAll in local mode: self.query.from_self().all()
FromSelf == AllRows

\* a cutoff that already refuses at the limits themselves
TooLargeAtLimit ==
    totalcount >= GetAllRowLimit \/ Len(columns) >= GetAllColLimit

\* getAll: the cutoff on rows and columns
TooLarge == totalcount > GetAllRowLimit \/ Len(columns) > GetAllColLimit

\* Results.getAll()
GetAll(fail) ==
    /\ UNCHANGED <<fixed, objects,
                   files, merge, query, queryobj, sortcol, order,
                   chunk, start, end>>
    /\ IF TooLarge
       THEN /\ UNCHANGED <<columns, count, results, rs>>
            /\ last' = Call("getAll", "MarvinUserWarning", "too_large",
                            {}, FALSE, 0)
       ELSE LET b == IF mode = "local" THEN
                         IF query # "handle" THEN Untouched("AttributeError", 0)
                         ELSE MakeNamedTuple(FromSelf, 0, 0)
                     ELSE IF mode = "remote" THEN
                         \* config.urlmap[...] is subscripted without a check
                         IF ~urlmap THEN Untouched("TypeError", 0)
                         ELSE Interaction(Service(GetAllParams), 0, fail)
                     ELSE Untouched("ok", 0)
            IN  /\ results' = b.results
                /\ rs' = b.rs
                /\ columns' = b.columns
                /\ count' = IF b.exc = "ok" /\ mode = "remote"
                            THEN totalcount ELSE b.count
                /\ last' = Call("getAll", b.exc,
                                IF b.exc = "ok" THEN "" ELSE "getAll", {},
                                b.fetched, b.reqs)

\* columns a caller sorts on (a column is named by its remote name)
SortNames == {"z"}

\* Results.sort(name, order)
Sort(name, ord, fail) ==
    /\ name \in SeqToSet(columns)
    /\ sortcol' = name
    /\ order' = ord
    /\ UNCHANGED <<fixed, objects,
                   files, merge, query, queryobj, chunk, start, end>>
    /\ LET b == IF mode = "local" THEN
                    \* ResultSet.sort; a plain list rejects the column argument
                    IF ~rs.isSet THEN Untouched("TypeError", 0)
                    ELSE Buffer("ok", SortRows(results, name, ord = "desc"),
                                rs, count, columns, 0, FALSE)
                ELSE IF mode = "remote" THEN
                    IF ~urlmap THEN Untouched("MarvinError", 0)
                    ELSE Interaction(Service(SortParams(name, ord)), 0,
                                     fail)
                ELSE Untouched("ok", 0)
       IN  /\ results' = b.results
           /\ rs' = b.rs
           /\ columns' = b.columns
           /\ count' = b.count
           /\ last' = Call("sort", b.exc,
                           IF b.exc = "ok" THEN "" ELSE "Sort", {},
                           b.fetched, b.reqs)

\* a subset handed to merge_subsets: the _fields of its rows and the rows
Subset(fields, rws) == [fields |-> fields, rows |-> rws]

\* a merge that puts the later subsets first
RECURSIVE ConcatReversed(_)
ConcatReversed(ss) ==
    IF ss = <<>> THEN <<>> ELSE ConcatReversed(Tail(ss)) \o Head(ss).rows

\* sum(subsets, [])
RECURSIVE Concat(_)
Concat(ss) == IF ss = <<>> THEN <<>> ELSE Head(ss).rows \o Concat(Tail(ss))

\* Results.merge_subsets(subsets)
MergeSubsets(subsets) ==
    LET idx        == 1..Len(subsets)
        \* same_count = all([len(s[0]) for s in subsets])
        same_count == \A i \in idx : Len(subsets[i].fields) # 0
        \* same_cols = all([list(s[0]._fields) == columns.list_params(...)])
        same_cols  == \A i \in idx : subsets[i].fields = columns
        output     == Concat(subsets)
    IN  /\ UNCHANGED <<fixed, objects,
                       files, merge, query, queryobj, sortcol, order,
                       chunk, start, end, columns>>
        /\ IF \E i \in idx : subsets[i].rows = <<>>
           THEN /\ UNCHANGED <<results, rs, count>>
                /\ last' = Call("merge_subsets", "IndexError",
                                "", {}, FALSE, 0)
           ELSE IF same_count
           THEN IF same_cols
                THEN /\ results' = output
                     /\ rs' = NoSet
                     /\ count' = CountOf(output)
                     /\ last' = Call("merge_subsets", "ok",
                                     "", {}, FALSE, 0)
                ELSE /\ UNCHANGED <<results, rs, count>>
                     /\ last' = Call("merge_subsets", "MarvinUserWarning", "different_names",
                                     {}, FALSE, 0)
           ELSE /\ UNCHANGED <<results, rs, count>>
                /\ last' = Call("merge_subsets", "MarvinUserWarning", "number_mismatch",
                                {}, FALSE, 0)

\* ------------------------------------------------------------- buffer merge
\* self.results + other, other being the ResultSet of a controller with the
\* columns othercols: ResultSet.__add__ extends the registry of the
\* controller, then adds the rows in pairs; matching tells whether the rows
\* paired have the same plateifus. The set returned is not stored. A buffer
\* that is a plain list is concatenated by list.__add__.
SetAdd(othercols, matching) ==
    /\ columns' = IF rs.isSet
                  THEN columns \o SelectNotIn(othercols, SeqToSet(columns))
                  ELSE columns
    /\ last' = Call("__add__",
                    IF rs.isSet /\ ~matching THEN "AssertionError" ELSE "ok",
                    "", {}, FALSE, 0)
    /\ UNCHANGED <<fixed, objects, files, merge, query, queryobj, count,
                   chunk, start, end, sortcol, order, results, rs>>

\* --------------------------------------------------------------- conversion
\* a list of tools that lets an unknown kind through
ToolListOpen == {"cube", "spaxel", "maps", "rss", "modelcube", "galaxy"}

\* toollist
ToolList == {"cube", "spaxel", "maps", "rss", "modelcube"}

\* limit=None: the slice results[0:None] is every buffered row
NoLimit == MaxTotal + 1

\* the tool built from the buffered row r: Cube and RSS take the plateifu,
\* Maps and ModelCube also the bintype and template of the row when the
\* registry has those columns
Tool(kind, r) ==
    [kind |-> kind, plateifu |-> Val("plateifu", r),
     kwargs |-> IF kind \in {"maps", "modelcube"}
                THEN {<<"bintype", Val("bintype_name", r)>> :
                         c \in {"bintype_name"} \cap SeqToSet(columns)}
                     \cup {<<"template_kin", Val("template_name", r)>> :
                              c \in {"template_name"} \cap SeqToSet(columns)}
                ELSE {}]

\* a slice that takes one row more than the limit
SliceToLimitInclusive(rows, limit) ==
    IF limit < 0 THEN SubSeq(rows, 1, Max(0, Len(rows) + limit + 1))
    ELSE SubSeq(rows, 1, Min(limit + 1, Len(rows)))

\* self.results[0:limit]
SliceToLimit(rows, limit) ==
    IF limit < 0 THEN SubSeq(rows, 1, Max(0, Len(rows) + limit))
    ELSE SubSeq(rows, 1, Min(limit, Len(rows)))

\* the list comprehension / loop over self.results[0:limit]
ToolsOf(kind, rows, limit) ==
    [i \in 1..Len(SliceToLimit(rows, limit)) |->
        Tool(kind, SliceToLimit(rows, limit)[i])]

\* the orders in which the unique plateifus of the buffer can come out of
\* list(set(...)): every order of the buffered rows (one plateifu per row)
Orderings(rows) ==
    {f \in [1..Len(rows) -> 1..Len(rows)] :
        \A i, j \in 1..Len(rows) : i # j => f[i] # f[j]}

\* what a conversion leaves: exc is "ok" or the exception raised
Converted(exc, objs) == [exc |-> exc, objects |-> objs]

\* the body of convertToTool(tooltype, limit=limit); "" is a tooltype of
\* None, pick the order the set of plateifus is iterated in
Convert(tooltype, limit, pick) ==
    LET kind == IF tooltype # "" THEN tooltype ELSE returntype
    IN  IF kind \notin ToolList THEN Converted("AssertionError", objects)
        ELSE IF kind # "spaxel"
        THEN Converted("ok", ToolsOf(kind, results, limit))
        ELSE IF ~({"x", "y"} \subseteq SeqToSet(columns))
        THEN Converted("AssertionError", objects)
        \* self.objects = [] is assigned before toTable and getListOf
        ELSE IF ~rs.isSet THEN Converted("TypeError", <<>>)
        \* one buffered row: getListOf returns the plateifu itself, and the
        \* cubes are asked for by its characters
        ELSE IF Len(results) = 1 THEN Converted("MarvinError", <<>>)
        ELSE Converted("ok", [i \in 1..Len(results) |->
                                 Tool("spaxel", results[pick[i]])])

\* Results.convertToTool(tooltype, limit=limit)
ConvertToTool(tooltype, limit, pick) ==
    /\ objects' = Convert(tooltype, limit, pick).objects
    /\ last' = Call("convertToTool", Convert(tooltype, limit, pick).exc,
                    "", {}, FALSE, 0)
    /\ UNCHANGED <<fixed, files, merge, columns, query, queryobj, count,
                   chunk, start, end, sortcol, order, results, rs>>

\* -------------------------------------------------------------- persistence
\* the attributes of a controller, as pickle writes them
Snapshot(q, qo) ==
    [mode |-> mode, returntype |-> returntype, fp |-> fp, params |-> params,
     columns |-> columns, query |-> q, queryobj |-> qo,
     totalcount |-> totalcount, count |-> count, chunk |-> chunk,
     start |-> start, end |-> end, sortcol |-> sortcol, order |-> order,
     results |-> results, rs |-> rs]

\* the save path: nothing there, a directory, some other file, or an archive
File(kind, obj) == [kind |-> kind, obj |-> obj]
NoFile == File("none", <<>>)

\* pickle.dump(self, ...): every buffered row is an instance of a class that
\* marvintuple creates at run time inside a function; pickle stores a class
\* by module and name and finds no such name in the module
PickleFails(rws) == Len(rws) > 0

\* a handler that leaves the partly written file where it is
PartialFileKept == File("foreign", <<>>)

\* the except branch of save: the file, if one exists, is removed
AfterFailedDump == NoFile

\* searchfilter.replace(' ', ''), for the filters of the model
StripSpaces(sf) == IF sf = "nsa.z < 0.1" THEN "nsa.z<0.1" ELSE sf

\* a save that keeps the stripped filter in self.searchfilter
FilterStripped == StripSpaces(fp.searchfilter)

\* save strips the filter into the local sf, for the default file name;
\* self.searchfilter is not assigned
FilterAfterSave == fp.searchfilter

\* Results.save(path, overwrite); ioFail: the file cannot be written
Save(overwrite, ioFail) ==
    LET q == IF query = "string" THEN "string" ELSE "none"
    IN  /\ queryobj' = FALSE
        /\ query' = q
        /\ fp' = [fp EXCEPT !.searchfilter = FilterAfterSave]
        /\ UNCHANGED <<mode, urlmap, returntype, params, totalcount, objects,
                       merge, restored, columns, count, chunk, start,
                       end, sortcol, order, results, rs>>
        /\ IF archive.kind = "dir"
           THEN /\ UNCHANGED archive
                /\ last' = Call("save", "MarvinError", "path_is_dir", {},
                                FALSE, 0)
           ELSE IF archive.kind # "none" /\ ~overwrite
           THEN /\ UNCHANGED archive
                /\ last' = Call("save", "ok", "", {"file_exists"},
                                FALSE, 0)
           ELSE IF ioFail \/ PickleFails(results)
           THEN /\ archive' = AfterFailedDump
                /\ last' = Call("save", "MarvinError", "pickling", {},
                                FALSE, 0)
           ELSE /\ archive' = File("pickle", <<Snapshot(q, FALSE)>>)
                /\ last' = Call("save", "ok", "path", {}, FALSE, 0)

\* Results.restore(path, delete)
Restore(delete) ==
    /\ UNCHANGED <<fixed, objects,
                   merge, columns, query, queryobj, count, chunk, start,
                   end, sortcol, order, results, rs>>
    /\ IF archive.kind = "pickle"
       THEN /\ restored' = archive.obj
            /\ archive' = IF delete THEN NoFile ELSE archive
            /\ last' = Call("restore", "ok", "", {}, FALSE, 0)
       ELSE /\ UNCHANGED <<archive, restored>>
            /\ last' = Call("restore", "IOError", "", {}, FALSE, 0)

\* ---------------------------------------------------------------- row merge
\* a fingerprint: the query a controller was built for
Fingerprint(sf, rp, rel, lim) ==
    [searchfilter |-> sf, returnparams |-> rp, release |-> rel, limit |-> lim]

\* a row: its _fields, its value per field, the fingerprint of its _results
Row(fields, vals, f) == [fields |-> fields, vals |-> vals, fp |-> f]
NoRow == Row(<<>>, [k \in {} |-> 0], Fingerprint("", <<>>, "", 0))

Raised(exc, msg) == [exc |-> exc, msg |-> msg, row |-> NoRow]
Returned(r)      == [exc |-> "ok", msg |-> "", row |-> r]

\* self_dict.update(other_dict) on the rows' ordered dicts: the keys
UpdatedKeys(a, b) == a.fields \o SelectNotIn(b.fields, SeqToSet(a.fields))

\* an update in which the left row keeps its values
KeptValue(a, b, k) ==
    IF k \in SeqToSet(a.fields) THEN a.vals[k] ELSE b.vals[k]

\* self_dict.update(other_dict): the value kept for key k
UpdatedValue(a, b, k) ==
    IF k \in SeqToSet(b.fields) THEN b.vals[k] ELSE a.vals[k]

\* a new_add that compares release and search filter whatever the left row
\* holds
NewAddStrict(a, b) ==
    IF a.fp.release # b.fp.release
    THEN Raised("AssertionError", "release")
    ELSE IF a.fp.searchfilter # b.fp.searchfilter
    THEN Raised("AssertionError", "searchfilter")
    ELSE IF a.vals["plateifu"] # b.vals["plateifu"]
    THEN Raised("AssertionError", "plateifu")
    ELSE LET keys == UpdatedKeys(a, b)
             dict == [k \in SeqToSet(keys) |-> UpdatedValue(a, b, k)]
         IN  Returned(Row(RowFields(keys), dict, a.fp))

\* marvintuple.new_add(self, other)
NewAdd(a, b) ==
    IF a.fp.release # "" /\ a.fp.release # b.fp.release
    THEN Raised("AssertionError", "release")
    ELSE IF a.fp.searchfilter # "" /\ a.fp.searchfilter # b.fp.searchfilter
    THEN Raised("AssertionError", "searchfilter")
    ELSE IF a.vals["plateifu"] # b.vals["plateifu"]
    THEN Raised("AssertionError", "plateifu")
    ELSE LET keys == UpdatedKeys(a, b)
             dict == [k \in SeqToSet(keys) |-> UpdatedValue(a, b, k)]
         IN  Returned(Row(RowFields(keys), dict, a.fp))

\* rowA + rowB
AddRows(a, b) ==
    /\ rowA' = a
    /\ rowB' = b
    /\ rowSum' = NewAdd(a, b)
    /\ last' = Call("add", NewAdd(a, b).exc, NewAdd(a, b).msg, {},
                    FALSE, 0)
    /\ UNCHANGED <<fixed, objects,
                   files, columns, query, queryobj, count, chunk, start,
                   end, sortcol, order, results, rs>>

\* ------------------------------------------------------------ round trips
\* the window and buffer a getNext started from, kept while the next call
\* is a getPrevious with the same chunk size
Trip(phase, c, s, e, rws, cnt) ==
    [phase |-> phase, chunk |-> c, start |-> s, end |-> e, results |-> rws,
     count |-> cnt]

NoTrip == Trip("none", 0, 0, 0, <<>>, 0)

\* the calls a local controller has answered and what each left, and how
\* many of them a remote controller of the same query has repeated
Replay(phase, calls, seen, got) ==
    [phase |-> phase, calls |-> calls, seen |-> seen, got |-> got]

NoReplay == Replay("none", <<>>, <<>>, <<>>)

\* the request the call just made sent (NoRequest when it sent none), and the
\* sort call made before it: sorted is "none" before any sort call, "ok" when
\* the last sort(col, ord) returned, "failed" when it raised
Sent(req, sorted, col, ord) ==
    [req |-> req, sorted |-> sorted, col |-> col, ord |-> ord]

NoSent == Sent(NoRequest, "none", "", "")

\* ------------------------------------------------------------ buffer lookup
\* a lookup key: a string (a column name or the text of a value) or an
\* integer position
StrKey(name) == [str |-> TRUE, name |-> name, pos |-> 0]
IntKey(i)    == [str |-> FALSE, name |-> "", pos |-> i]

\* str(v) of a value of a row
Text(v) == <<"0", "1", "2", "3", "4">>[v + 1]

\* the answer of a lookup: one value ("scalar"), one row ("row") or a list
FoundOne(kind, v) == [exc |-> "ok", kind |-> kind, val |-> v, vals |-> <<>>]
FoundAll(vs)      == [exc |-> "ok", kind |-> "list", val |-> 0, vals |-> vs]
NotFound(exc)     == [exc |-> exc, kind |-> "", val |-> 0, vals |-> <<>>]

\* a lookup that always answers with the list
AlwaysAll(found, kind) == FoundAll(found)

\* return rows[0] if len(rows) == 1 else rows
OneOrAll(found, kind) ==
    IF Len(found) = 1 THEN FoundOne(kind, found[1]) ELSE FoundAll(found)

\* ResultSet.__getitem__(value) on the set of rows rows with the columns cols:
\* a string in the columns gives the projection, any other string the rows
\* holding it as a value; an integer is list.__getitem__
GetItem(rows, cols, key) ==
    IF key.str
    THEN LET isCol == key.name \in SeqToSet(cols)
             found == IF isCol
                      THEN [i \in 1..Len(rows) |-> Val(key.name, rows[i])]
                      ELSE SelectSeq(rows, LAMBDA r :
                               \E i \in 1..Len(cols) :
                                   Text(Val(cols[i], r)) = key.name)
         IN  IF found # <<>>
             THEN OneOrAll(found, IF isCol THEN "scalar" ELSE "row")
             ELSE NotFound("ValueError")
    ELSE IF key.pos >= 0 /\ key.pos < Len(rows)
    THEN FoundOne("row", rows[key.pos + 1])
    ELSE IF key.pos < 0 /\ -key.pos <= Len(rows)
    THEN FoundOne("row", rows[Len(rows) + key.pos + 1])
    ELSE NotFound("IndexError")

\* a lookup in the set of rows rows by key and its answer
Looked(rows, cols, key, answer) ==
    [rows |-> rows, cols |-> cols, key |-> key, answer |-> answer]

NoLooked == Looked(<<>>, <<>>, IntKey(0), NotFound(""))

\* the windows [start, end) a controller has moved to since construction,
\* in the order it held them, and the rows its calls fetched, in the order
\* they were fetched
Walk(windows, rows) == [windows |-> windows, rows |-> rows]

NoWalk == Walk(<<>>, <<>>)

\* a marvintuple call on the params ps and the row built from the raw row
Built(ps, raw, type, row) ==
    [params |-> ps, raw |-> raw, type |-> type, row |-> row]

NoBuilt == Built(<<>>, <<>>, NoType, NoValues)

\* ------------------------------------------------------------ construction
Modes == {"local", "remote", "auto"}

\* Results.__init__ for a query of n rows with c rows per page: the first
\* page is buffered, chunk is the limit when one is given
Construct(m, um, rt, n, c, lim, ps, file) ==
    /\ mode = m
    /\ urlmap = um
    /\ returntype = rt
    /\ fp = Fingerprint("nsa.z < 0.1", SelectNotIn(ps, SeqToSet(DefaultFields)),
                        "MPL-5", lim)
    /\ params = ps
    /\ columns = ps
    /\ query = IF m = "remote" THEN "string" ELSE "handle"
    /\ queryobj = TRUE
    /\ totalcount = n
    /\ count = Min(c, n)
    /\ chunk = c
    /\ start = 0
    /\ end = c
    /\ sortcol = ""
    /\ order = ""
    /\ results = Range(0, Min(c, n))
    /\ rs = NewResultSet(Range(0, Min(c, n)), 0, Min(c, n), n)
    /\ objects = IF rt = "" THEN <<>>
                 ELSE ToolsOf(rt, Range(0, Min(c, n)), NoLimit)
    /\ last = NoCall
    /\ archive = file
    /\ restored = <<>>
    /\ rowA = NoRow
    /\ rowB = NoRow
    /\ rowSum = Raised("", "")
    /\ trip = NoTrip
    /\ replay = NoReplay
    /\ sent = NoSent
    /\ built = NoBuilt
    /\ looked = NoLooked
    /\ walk = NoWalk

\* the controllers of the paging specification: every mode, a remote
\* controller with and without a route map, a local controller with and
\* without a returntype
Init ==
    \E m \in Modes, um \in BOOLEAN, rt \in {"", "cube"},
       n \in 1..MaxTotal, c \in 1..MaxChunk, lim \in 0..MaxChunk :
        /\ um \/ m = "remote"
        /\ rt = "" \/ m = "local"
        /\ lim = 0
        /\ Construct(m, um, rt, n, c, lim, DefaultFields \o <<"z">>, NoFile)

\* the subsets a caller merges: rows with the registry's fields (A, B),
\* with one column more, with one column renamed, with one column fewer,
\* and a subset without rows
SubsetLists ==
    LET A       == Subset(columns, <<0>>)
        B       == Subset(columns, <<1, 0>>)
        More    == Subset(columns \o <<"extra">>, <<0>>)
        Renamed == Subset(SubSeq(columns, 1, Len(columns) - 1) \o <<"other">>,
                          <<0>>)
        Fewer   == Subset(SubSeq(columns, 1, Len(columns) - 1), <<0>>)
        Empty   == Subset(columns, <<>>)
    IN  { <<A>>, <<B>>, <<A, B>>, <<More>>, <<A, More>>, <<More, A>>,
          <<Renamed>>, <<A, Renamed>>, <<Fewer>>, <<More, Fewer>>,
          <<A, Empty>> }

\* a transport failure can only happen where a request is sent
Failures == IF mode = "remote" /\ urlmap THEN BOOLEAN ELSE {FALSE}

\* a LIMIT below zero only reaches a local data source, from a window that
\* ends behind the result set
NegLimits == IF mode = "local" /\ end > totalcount THEN BOOLEAN ELSE {FALSE}

\* paging: the four operations that fetch rows
Next ==
    \/ \E c \in ChunkArgs, fail \in Failures, neg \in NegLimits :
          GetNext(c, fail, neg) /\ UNCHANGED hist
    \/ \E c \in ChunkArgs, fail \in Failures :
          GetPrevious(c, fail) /\ UNCHANGED hist
    \/ \E s \in StartArgs, l \in ChunkArgs, fail \in Failures :
          GetSubset(s, l, fail) /\ UNCHANGED hist
    \/ \E fail \in Failures : GetAll(fail) /\ UNCHANGED hist

Spec == Init /\ [][Next]_vars

\* paging, remembering where a getNext started while a getPrevious with the
\* same chunk size follows it
NextTrip ==
    \/ \E c \in ChunkArgs, fail \in Failures, neg \in NegLimits :
          /\ GetNext(c, fail, neg)
          /\ trip' = IF last'.exc = "ok"
                     THEN Trip("next", chunk', start, end, results, count)
                     ELSE NoTrip
          /\ UNCHANGED <<replay, sent, built, looked, walk>>
    \/ \E c \in ChunkArgs, fail \in Failures :
          /\ GetPrevious(c, fail)
          /\ trip' = IF trip.phase = "next" /\ last'.exc = "ok"
                        /\ chunk' = trip.chunk
                     THEN [trip EXCEPT !.phase = "back"]
                     ELSE NoTrip
          /\ UNCHANGED <<replay, sent, built, looked, walk>>
    \/ \E s \in StartArgs, l \in ChunkArgs, fail \in Failures :
          GetSubset(s, l, fail) /\ trip' = NoTrip /\ UNCHANGED <<replay, sent, built, looked, walk>>
    \/ \E fail \in Failures :
          GetAll(fail) /\ trip' = NoTrip /\ UNCHANGED <<replay, sent, built, looked, walk>>

SpecTrip == Init /\ [][NextTrip]_vars

\* getAll at its cutoff: result sets and registries at, above and below it
ParamsOfWidth(k) ==
    DefaultFields \o [i \in 1..(k - Len(DefaultFields)) |-> "z" \o ToString(i)]

InitAll ==
    \E m \in Modes, um \in BOOLEAN, c \in 1..MaxChunk,
       n \in {1, MaxTotal, GetAllRowLimit, GetAllRowLimit + 1,
              GetAllRowLimit + 100000},
       k \in {Len(DefaultFields) + 1, GetAllColLimit, GetAllColLimit + 1} :
        /\ um \/ m = "remote"
        /\ n = GetAllRowLimit => c = 1 /\ um /\ m = "local" /\ k = GetAllColLimit
        /\ Construct(m, um, "", n, c, 0, ParamsOfWidth(k), NoFile)

NextAll ==
    \/ \E fail \in Failures : GetAll(fail) /\ UNCHANGED hist
    \/ \E c \in ChunkArgs, fail \in Failures :
          GetPrevious(c, fail) /\ UNCHANGED hist

SpecAll == InitAll /\ [][NextAll]_vars

\* row merge: rows of two shapes and two identities, from queries that
\* differ in release, in filter or in limit
RowFingerprints ==
    { Fingerprint(sf, <<>>, rel, lim) :
        sf \in {"", "nsa.z < 0.1", "nsa.z > 1"}, rel \in {"", "MPL-4", "MPL-5"},
        lim \in {10, 100} }

RowChoices ==
    { Row(f,
          [k \in SeqToSet(f) |->
              IF k = "a" THEN Len(f) - Len(DefaultFields)
              ELSE IF k = "b" THEN 3
              ELSE id],
          [g EXCEPT !.returnparams = SelectNotIn(f, SeqToSet(DefaultFields))]) :
        f \in {DefaultFields \o <<"a">>, DefaultFields \o <<"a", "b">>},
        id \in 1..2,
        g \in { h \in RowFingerprints :
                  \/ h.limit = 10 /\ (h.searchfilter = "nsa.z < 0.1"
                                      \/ h.release = "MPL-5")
                  \/ h = Fingerprint("nsa.z < 0.1", <<>>, "MPL-5", 100) } }

InitRow ==
    Construct("local", TRUE, "", 1, 1, 0, DefaultFields \o <<"z">>, NoFile)

NextRow == \E a \in RowChoices, b \in RowChoices : AddRows(a, b) /\ UNCHANGED hist

SpecRow == InitRow /\ [][NextRow]_vars

\* merging subsets into a controller that is paged forward and backward
InitMerge ==
    \E m \in {"local", "remote"}, n \in 1..MaxTotal, c \in 1..MaxChunk :
        Construct(m, TRUE, "", n, c, 0, DefaultFields \o <<"z">>, NoFile)

NextMerge ==
    \/ \E ss \in SubsetLists : MergeSubsets(ss) /\ UNCHANGED hist
    \/ \E c \in ChunkArgs, fail \in Failures, neg \in NegLimits :
          GetNext(c, fail, neg) /\ UNCHANGED hist
    \/ \E c \in ChunkArgs, fail \in Failures :
          GetPrevious(c, fail) /\ UNCHANGED hist

SpecMerge == InitMerge /\ [][NextMerge]_vars

\* saving and restoring a controller that is paged forward and backward
InitSave ==
    \E m \in {"local", "remote"}, n \in 1..MaxTotal, c \in 1..MaxChunk,
       kind \in {"none", "foreign", "dir"} :
        Construct(m, TRUE, "", n, c, 0, DefaultFields \o <<"z">>,
                  File(kind, <<>>))

NextSave ==
    \/ \E overwrite \in BOOLEAN, ioFail \in BOOLEAN :
          Save(overwrite, ioFail) /\ UNCHANGED hist
    \/ \E delete \in BOOLEAN : Restore(delete) /\ UNCHANGED hist
    \/ \E c \in ChunkArgs, fail \in Failures, neg \in NegLimits :
          GetNext(c, fail, neg) /\ UNCHANGED hist
    \/ \E c \in ChunkArgs, fail \in Failures :
          GetPrevious(c, fail) /\ UNCHANGED hist

SpecSave == InitSave /\ [][NextSave]_vars

\* sorting and paging: local and remote controllers, a remote controller with
\* and without a route map, of a query whose limit is the page size
Orders == {"asc", "desc"}

InitSort ==
    \E m \in {"local", "remote"}, um \in BOOLEAN, n \in 1..MaxTotal,
       c \in 1..MaxChunk :
        /\ um \/ m = "remote"
        /\ Construct(m, um, "", n, c, c, DefaultFields \o <<"z">>, NoFile)

NextSort ==
    \/ \E name \in SortNames, ord \in Orders, fail \in Failures :
          Sort(name, ord, fail) /\ UNCHANGED hist
    \/ \E fail \in Failures, neg \in NegLimits :
          GetNext(0, fail, neg) /\ UNCHANGED hist
    \/ \E fail \in Failures : GetPrevious(0, fail) /\ UNCHANGED hist
    \/ \E s \in 0..MaxStart, fail \in Failures :
          GetSubset(s, 0, fail) /\ UNCHANGED hist
    \/ \E fail \in Failures : GetAll(fail) /\ UNCHANGED hist

SpecSort == InitSort /\ [][NextSort]_vars

\* a local and a remote controller of the same query answering the same
\* calls: the local controller answers up to MaxCalls calls, then a remote
\* controller is constructed for the query and answers them again
Made(op, s, name, ord) == [op |-> op, start |-> s, name |-> name, order |-> ord]

Calls ==
    { Made("sort", 0, name, ord) : name \in SortNames, ord \in Orders }
    \cup { Made("getSubset", s, "", "") : s \in 0..MaxStart }
    \cup { Made(op, 0, "", "") : op \in {"getNext", "getPrevious", "getAll"} }

\* the call made, answered by a data source or service that does not fail
Answer(call, neg) ==
    \/ call.op = "sort" /\ Sort(call.name, call.order, FALSE)
    \/ call.op = "getNext" /\ GetNext(0, FALSE, neg)
    \/ call.op = "getPrevious" /\ GetPrevious(0, FALSE)
    \/ call.op = "getSubset" /\ GetSubset(call.start, 0, FALSE)
    \/ call.op = "getAll" /\ GetAll(FALSE)

\* what a caller sees of a controller after a call
Observation(rws, cnt, s, e, call) ==
    [results |-> rws, count |-> cnt, start |-> s, end |-> e,
     raised |-> call.exc # "ok"]

\* Results.__init__ in remote mode for the query the local controller has
ConstructRemote ==
    /\ mode' = "remote"
    /\ query' = "string"
    /\ queryobj' = TRUE
    /\ columns' = params
    /\ count' = Min(fp.limit, totalcount)
    /\ chunk' = fp.limit
    /\ start' = 0
    /\ end' = fp.limit
    /\ sortcol' = ""
    /\ order' = ""
    /\ results' = Range(0, Min(fp.limit, totalcount))
    /\ rs' = NewResultSet(Range(0, Min(fp.limit, totalcount)), 0,
                          Min(fp.limit, totalcount), totalcount)
    /\ objects' = IF returntype = "" THEN <<>>
                  ELSE ToolsOf(returntype,
                               Range(0, Min(fp.limit, totalcount)), NoLimit)
    /\ last' = NoCall
    /\ UNCHANGED <<urlmap, returntype, fp, params, totalcount, files, merge>>

InitPair ==
    \E n \in 1..MaxTotal, c \in 1..MaxChunk :
        Construct("local", TRUE, "", n, c, c, DefaultFields \o <<"z">>, NoFile)

NextPair ==
    \/ \E call \in Calls, neg \in NegLimits :
          /\ replay.phase = "none"
          /\ Len(replay.calls) < MaxCalls
          /\ Answer(call, neg)
          /\ replay' = Replay("none", Append(replay.calls, call),
                              Append(replay.seen,
                                     Observation(results', count', start',
                                                 end', last')),
                              <<>>)
          /\ UNCHANGED <<trip, sent, built, looked, walk>>
    \/ /\ replay.phase = "none"
       /\ replay.calls # <<>>
       /\ ConstructRemote
       /\ replay' = [replay EXCEPT !.phase = "remote"]
       /\ UNCHANGED <<trip, sent, built, looked, walk>>
    \/ /\ replay.phase = "remote"
       /\ Len(replay.got) < Len(replay.calls)
       /\ Answer(replay.calls[Len(replay.got) + 1], FALSE)
       /\ replay' = [replay EXCEPT
                        !.got = Append(@, Observation(results', count',
                                                      start', end', last'))]
       /\ UNCHANGED <<trip, sent, built, looked, walk>>

SpecPair == InitPair /\ [][NextPair]_vars

\* remote controllers with a route map, and the requests their calls send
InitReq ==
    \E n \in 1..MaxTotal, c \in 1..MaxChunk :
        Construct("remote", TRUE, "", n, c, c, DefaultFields \o <<"z">>, NoFile)

\* a paging call or getAll sent req if it sent anything
Paged(req) ==
    sent' = [sent EXCEPT !.req = IF last'.reqs > 0 THEN req ELSE NoRequest]

NextReq ==
    \/ \E name \in SortNames, ord \in Orders, fail \in Failures :
          /\ Sort(name, ord, fail)
          /\ sent' = Sent(IF last'.reqs > 0 THEN SortParams(name, ord)
                          ELSE NoRequest,
                          IF last'.exc = "ok" THEN "ok" ELSE "failed",
                          name, ord)
          /\ UNCHANGED <<trip, replay, built, looked, walk>>
    \/ \E fail \in Failures :
          /\ GetNext(0, fail, FALSE)
          /\ Paged(SubsetParams(end, NextEnd(ChunkUsed(0))))
          /\ UNCHANGED <<trip, replay, built, looked, walk>>
    \/ \E fail \in Failures :
          /\ GetPrevious(0, fail)
          /\ Paged(SubsetParams(PreviousStart(ChunkUsed(0)), start))
          /\ UNCHANGED <<trip, replay, built, looked, walk>>
    \/ \E s \in 0..MaxStart, fail \in Failures :
          /\ GetSubset(s, 0, fail)
          /\ Paged(SubsetParams(s, s + chunk))
          /\ UNCHANGED <<trip, replay, built, looked, walk>>
    \/ \E fail \in Failures :
          /\ GetAll(fail)
          /\ Paged(GetAllParams)
          /\ UNCHANGED <<trip, replay, built, looked, walk>>

SpecReq == InitReq /\ [][NextReq]_vars

\* columns of the other ResultSet of a buffer merge: the same as the
\* controller's, and one more
OtherColumns == {DefaultFields \o <<"z">>, DefaultFields \o <<"z", "x">>}

\* merging another ResultSet into the buffer of a controller that is paged,
\* sorted and fetched whole
InitGrow ==
    \E m \in {"local", "remote"}, n \in 1..MaxTotal, c \in 1..MaxChunk :
        Construct(m, TRUE, "", n, c, c, DefaultFields \o <<"z">>, NoFile)

NextGrow ==
    \/ \E othercols \in OtherColumns, matching \in BOOLEAN :
          SetAdd(othercols, matching) /\ UNCHANGED hist
    \/ \E fail \in Failures, neg \in NegLimits :
          GetNext(0, fail, neg) /\ UNCHANGED hist
    \/ \E fail \in Failures : GetPrevious(0, fail) /\ UNCHANGED hist
    \/ \E s \in 0..MaxStart, fail \in Failures :
          GetSubset(s, 0, fail) /\ UNCHANGED hist
    \/ \E name \in SortNames, ord \in Orders, fail \in Failures :
          Sort(name, ord, fail) /\ UNCHANGED hist
    \/ \E fail \in Failures : GetAll(fail) /\ UNCHANGED hist

SpecGrow == InitGrow /\ [][NextGrow]_vars

\* every operation on one controller with pages of one row: paging, a
\* subset from the second row, a descending sort, the full fetch, merging a
\* subset, converting and saving
InitOps ==
    \E m \in {"local", "remote"}, n \in 2..MaxTotal :
        Construct(m, TRUE, "", n, 1, 1, DefaultFields \o <<"z">>, NoFile)

NextOps ==
    \/ \E neg \in NegLimits : GetNext(0, FALSE, neg) /\ UNCHANGED hist
    \/ GetPrevious(0, FALSE) /\ UNCHANGED hist
    \/ \E s \in {1} : GetSubset(s, 0, FALSE) /\ UNCHANGED hist
    \/ \E name \in SortNames, ord \in {"desc"} :
          Sort(name, ord, FALSE) /\ UNCHANGED hist
    \/ GetAll(FALSE) /\ UNCHANGED hist
    \/ \E ss \in {<<Subset(columns, <<1, 0>>)>>} :
          MergeSubsets(ss) /\ UNCHANGED hist
    \/ \E tooltype \in {"cube", "galaxy"} :
          ConvertToTool(tooltype, NoLimit, [i \in 1..Len(results) |-> i])
          /\ UNCHANGED hist
    \/ \E overwrite \in BOOLEAN : Save(overwrite, FALSE) /\ UNCHANGED hist

SpecOps == InitOps /\ [][NextOps]_vars

\* the column names a caller requests
ParamNames == SeqToSet(DefaultFields) \cup {"z"}

\* the requested column lists: every list of up to MaxParams names
ParamLists == UNION {[1..n -> ParamNames] : n \in 0..MaxParams}

\* the raw row of a query for the params ps: one value per requested column,
\* in request order (column i has the value 10 + i), short of or beyond the
\* number of columns by extra
RawRow(ps, extra) == [i \in 1..(Len(ps) + extra) |-> 10 + i]

\* the row type of a request and a row of it
InitTuple ==
    Construct("local", TRUE, "", 1, 1, 0, DefaultFields \o <<"z">>, NoFile)

\* what _makeNamedTuple does per row: nt = marvintuple('ResultRow', ntnames)
\* and nt(*r)
MakeRow(ps, raw) ==
    /\ built' = Built(ps, raw, MarvinTuple(ps), NewRow(MarvinTuple(ps), raw))
    /\ UNCHANGED <<fixed, objects, files, merge, columns, query, queryobj,
                   count, chunk, start, end, sortcol, order, results, rs,
                   last, trip, replay, sent, looked, walk>>

\* one row type and one row per behaviour
NextTuple ==
    \E ps \in ParamLists, extra \in {-1, 0, 1} :
        /\ built = NoBuilt
        /\ Len(ps) + extra >= 0
        /\ MakeRow(ps, RawRow(ps, extra))

SpecTuple == InitTuple /\ [][NextTuple]_vars

\* the sets of rows looked into: up to MaxRows rows of the query, in any order
RowLists == UNION {[1..n -> 0..(MaxTotal - 1)] : n \in 0..MaxRows}

\* the keys looked up: the columns, a name that is no column, values a row
\* may hold, and positions within and beyond the rows
Keys ==
    {StrKey(v) : v \in SeqToSet(DefaultFields) \cup {"z", "q", "0", "1"}}
        \cup {IntKey(i) : i \in (-MaxRows - 1)..MaxRows}

InitLookup ==
    Construct("local", TRUE, "", 1, 1, 0, DefaultFields \o <<"z">>, NoFile)

\* self.results[key] on a ResultSet of the rows rows
Lookup(rows, key) ==
    /\ looked' = Looked(rows, columns, key, GetItem(rows, columns, key))
    /\ UNCHANGED <<fixed, objects, files, merge, columns, query, queryobj,
                   count, chunk, start, end, sortcol, order, results, rs,
                   last, trip, replay, sent, built, walk>>

\* one lookup per behaviour
NextLookup ==
    \E rows \in RowLists, key \in Keys :
        /\ looked = NoLooked
        /\ Lookup(rows, key)

SpecLookup == InitLookup /\ [][NextLookup]_vars

\* walking forward: controllers over more rows than a page holds, without a
\* returntype, and getNext() calls without an argument, one page after the
\* other until ceil(totalcount / chunk) - 1 of them have returned
InitWalk ==
    \E m \in Modes, um \in BOOLEAN, n \in 2..MaxWalk, c \in 1..MaxChunk :
        /\ um \/ m = "remote"
        /\ c < n
        /\ Construct(m, um, "", n, c, 0, DefaultFields \o <<"z">>, NoFile)

NextWalk ==
    \E fail \in Failures :
        /\ Len(walk.windows) < CeilDiv(totalcount, chunk) - 1
        /\ GetNext(0, fail, FALSE)
        /\ walk' = IF last'.exc = "ok"
                   THEN Walk(Append(walk.windows, <<start', end'>>),
                             walk.rows \o (IF last'.fetched THEN results'
                                           ELSE <<>>))
                   ELSE walk
        /\ UNCHANGED <<trip, replay, sent, built, looked>>

SpecWalk == InitWalk /\ [][NextWalk]_vars

\* limits a caller passes to convertToTool: negative, zero, one row, and none
Limits == ((-1)..1) \cup {NoLimit}

\* tool types a caller asks for: none, the five tools, and an unknown one
ToolTypes == ToolList \cup {"", "galaxy"}

\* the orders that matter to a conversion: only spaxels come from a set
Picks(tooltype) ==
    IF tooltype = "spaxel" THEN Orderings(results)
    ELSE {[i \in 1..Len(results) |-> i]}

\* converting the buffer of a controller that is paged forward and backward:
\* local controllers with and without a returntype, with and without the
\* spaxel and bintype columns
InitConvert ==
    \E rt \in {"", "maps"}, n \in 1..MaxTotal, c \in 1..MaxChunk,
       extra \in {<<"z">>, <<"x", "y", "bintype_name">>} :
        Construct("local", TRUE, rt, n, c, c, DefaultFields \o extra, NoFile)

NextConvert ==
    \/ \E tooltype \in ToolTypes, limit \in Limits :
          \E pick \in Picks(tooltype) :
              ConvertToTool(tooltype, limit, pick) /\ UNCHANGED hist
    \/ \E fail \in Failures, neg \in NegLimits :
          GetNext(0, fail, neg) /\ UNCHANGED hist
    \/ \E fail \in Failures : GetPrevious(0, fail) /\ UNCHANGED hist

SpecConvert == InitConvert /\ [][NextConvert]_vars

\* ------------------------------------------------------------- properties

\* C1, as stated: after any successful getNext, getPrevious or getSubset the
\* number of buffered rows is min(chunk, totalcount - start), chunk and start
\* being the controller's after the call (here for the calls that fetched the
\* buffer from the local data source or the remote service)
C1_RowsAreMinChunkRest ==
    ( /\ mode \in {"local", "remote"}
      /\ last.op \in {"getNext", "getPrevious", "getSubset"}
      /\ last.exc = "ok"
      /\ last.fetched )
    => Len(results) = Min(chunk, totalcount - start)

\* C1, amended: after a successful getNext, getPrevious or getSubset that
\* fetched the buffer, the number of buffered rows, and count, is the number
\* of rows of the result set inside the window [start, end):
\* max(0, min(end, totalcount) - start)
C1_RowsAreWindowRows ==
    ( /\ mode \in {"local", "remote"}
      /\ last.op \in {"getNext", "getPrevious", "getSubset"}
      /\ last.exc = "ok"
      /\ last.fetched )
    => /\ Len(results) = Max(0, Min(end, totalcount) - start)
       /\ count = Len(results)

\* C1: a getPrevious cut at the beginning has fetched a window shorter than
\* the chunk although more rows follow it
C1_Witness ==
    /\ mode \in {"local", "remote"}
    /\ last.op = "getPrevious"
    /\ last.exc = "ok"
    /\ last.fetched
    /\ start = 0
    /\ Len(results) > 0
    /\ Len(results) < chunk
    /\ Len(results) < totalcount

C3_SubsetReturnsIndexedBuffer ==
    [][ \A s \in 0..MaxStart, l \in 1..MaxChunk :
          ( /\ mode \in {"local", "remote"}
            /\ urlmap
            /\ returntype = ""
            /\ GetSubset(s, l, FALSE) )
          => /\ last'.exc = "ok"
             /\ Len(results') <= l
             /\ start' = s
             /\ rs'.isSet
             /\ rs'.index = s ]_vars

\* C4: getNext(c) and getPrevious(c) with c < 0 warn about the chunk, leave
\* self.chunk as it was, do not fail where a step of the old chunk size has
\* rows to fetch (or the controller holds everything), and move the window
\* by the old chunk size
C4_NegativeChunkFallsBack ==
    [][ \A c \in {x \in ChunkArgs : x < 0}, f \in Failures, ng \in NegLimits :
          /\ GetNext(c, f, ng)
             => /\ "chunk_negative" \in last'.warns
                /\ chunk' = chunk
                /\ ( /\ ~f
                     /\ mode = "remote" => urlmap
                     /\ returntype = ""
                     /\ count = totalcount \/ end < totalcount )
                   => last'.exc = "ok"
                /\ (last'.exc = "ok" /\ count # totalcount)
                   => /\ start' = end
                      /\ end' = Min(end + chunk, totalcount)
          /\ GetPrevious(c, f)
             => /\ "chunk_negative" \in last'.warns
                /\ chunk' = chunk
                /\ ( /\ ~f
                     /\ mode = "remote" => urlmap
                     /\ returntype = ""
                     /\ \/ count = totalcount
                        \/ Max(0, start - chunk) < Min(start, totalcount) )
                   => last'.exc = "ok"
                /\ (last'.exc = "ok" /\ count # totalcount)
                   => /\ end' = start
                      /\ start' = Max(0, start - chunk) ]_vars

\* C4: a getNext with a negative chunk has fetched the next window of the
\* old chunk size, which is not the size of the chunk passed
C4_Witness ==
    /\ last.op = "getNext"
    /\ "chunk_negative" \in last.warns
    /\ last.exc = "ok"
    /\ last.fetched
    /\ chunk # MaxChunk
    /\ start > 0
    /\ end = start + chunk
    /\ Len(results) = chunk

\* C5: getAll raises and changes nothing (rows, count, start, end; no query
\* run, no request sent) whenever totalcount > 500000 or there are more than
\* 25 columns; with at most 500000 rows and at most 25 columns it does not
\* refuse
C5_GetAllRefusesAboveLimits ==
    [][ \A f \in Failures :
          GetAll(f)
          => IF totalcount > GetAllRowLimit \/ Len(columns) > GetAllColLimit
             THEN /\ last'.exc = "MarvinUserWarning"
                  /\ last'.msg = "too_large"
                  /\ UNCHANGED <<results, rs, count, start, end>>
                  /\ ~last'.fetched
                  /\ last'.reqs = 0
             ELSE last'.msg # "too_large" ]_vars

\* C5: getAll has refused a result set of 500001 rows and 25 columns and
\* left the first page in the buffer
C5_Witness ==
    /\ last.op = "getAll"
    /\ last.exc = "MarvinUserWarning"
    /\ last.msg = "too_large"
    /\ totalcount = GetAllRowLimit + 1
    /\ Len(columns) = GetAllColLimit
    /\ start = 0
    /\ results = Range(0, chunk)
    /\ count = chunk

\* C6, as stated: merge_subsets on subsets (each with rows) whose numbers of
\* columns differ from one another raises the error about the number of
\* columns, not the one about their names, and leaves the buffer and count
\* as they were
C6_ColumnCountMismatchError ==
    [][ \A ss \in SubsetLists :
          ( /\ MergeSubsets(ss)
            /\ \A i \in 1..Len(ss) : ss[i].rows # <<>>
            /\ \E i, j \in 1..Len(ss) :
                  Len(ss[i].fields) # Len(ss[j].fields) )
          => /\ last'.exc = "MarvinUserWarning"
             /\ last'.msg = "number_mismatch"
             /\ UNCHANGED <<results, rs, count>> ]_vars

\* C7: rowA + rowB raises and yields no row when the plateifus differ; with
\* equal plateifus and equal release and search filter it yields a row; the
\* row yielded has rowA's fields followed by the fields only rowB has, none
\* twice, every field of rowB with rowB's value and every other field with
\* rowA's value
C7_RowMergeUnionSecondWins ==
    last.op = "add"
    => /\ rowA.vals["plateifu"] # rowB.vals["plateifu"]
          => rowSum.exc # "ok" /\ rowSum.row = NoRow
       /\ ( /\ rowA.vals["plateifu"] = rowB.vals["plateifu"]
            /\ rowA.fp.release = rowB.fp.release
            /\ rowA.fp.searchfilter = rowB.fp.searchfilter )
          => rowSum.exc = "ok"
       /\ rowSum.exc = "ok"
          => LET fs == rowSum.row.fields
                 fa == rowA.fields
                 fb == rowB.fields
                 onlyB == {i \in 1..Len(fb) : fb[i] \notin SeqToSet(fa)}
             IN  /\ SubSeq(fs, 1, Len(fa)) = fa
                 /\ Len(fs) = Len(fa) + Cardinality(onlyB)
                 /\ SeqToSet(fs) = SeqToSet(fa) \cup SeqToSet(fb)
                 /\ \A i, j \in onlyB :
                       i < j => \E m, n \in (Len(fa) + 1)..Len(fs) :
                                   m < n /\ fs[m] = fb[i] /\ fs[n] = fb[j]
                 /\ \A k \in SeqToSet(fs) :
                       rowSum.row.vals[k] =
                           IF k \in SeqToSet(fb) THEN rowB.vals[k]
                           ELSE rowA.vals[k]

\* C7: {a: 1} + {a: 2, b: 3} with equal plateifu has yielded {a: 2, b: 3}
C7_Witness ==
    /\ last.op = "add"
    /\ rowSum.exc = "ok"
    /\ "b" \notin SeqToSet(rowA.fields)
    /\ "b" \in SeqToSet(rowB.fields)
    /\ rowA.vals["a"] = 1
    /\ rowB.vals["a"] = 2
    /\ rowSum.row.vals["a"] = 2
    /\ rowSum.row.vals["b"] = 3
    /\ rowSum.row.vals["plateifu"] = rowA.vals["plateifu"]

C9_SaveRestoreRoundTrip ==
    [][ \A ow \in BOOLEAN :
          ( /\ Save(ow, FALSE)
            /\ archive.kind # "dir"
            /\ archive.kind = "none" \/ ow )
          => /\ last'.exc = "ok"
             /\ archive'.kind = "pickle"
             /\ archive'.obj[1].fp = fp
             /\ archive'.obj[1].results = results
             /\ archive'.obj[1].columns = columns
             /\ ~archive'.obj[1].queryobj ]_vars

\* C10, as stated: when count # totalcount, a successful getNext sets start
\* to the old end and end to min(old end + chunk, totalcount), warns of the
\* end exactly when old end + chunk > totalcount, and the buffer holds the
\* rows of the range [start, end) of the result set
C10_NextFetchesNextWindow ==
    [][ \A c \in ChunkArgs, f \in Failures, ng \in NegLimits :
          ( /\ GetNext(c, f, ng)
            /\ count # totalcount
            /\ last'.exc = "ok" )
          => /\ start' = end
             /\ end' = Min(end + chunk', totalcount)
             /\ "reached_end" \in last'.warns <=> end + chunk' > totalcount
             /\ results' = Range(Min(start', totalcount),
                                 Max(Min(start', totalcount), end')) ]_vars

\* C11: when count # totalcount, a successful getPrevious sets end to the
\* old start and start to max(0, old start - chunk), warns of the beginning
\* exactly when old start - chunk < 0, and leaves start >= 0
C11_PreviousMovesWindowBack ==
    [][ \A c \in ChunkArgs, f \in Failures :
          ( /\ GetPrevious(c, f)
            /\ count # totalcount
            /\ last'.exc = "ok" )
          => /\ end' = start
             /\ start' = Max(0, start - chunk')
             /\ "reached_beginning" \in last'.warns <=> start - chunk' < 0
             /\ start' >= 0 ]_vars

\* C11: a getPrevious from a window that began less than a chunk behind the
\* beginning has warned and fetched the rows from 0 to the old start
C11_Witness ==
    /\ last.op = "getPrevious"
    /\ last.exc = "ok"
    /\ last.fetched
    /\ "reached_beginning" \in last.warns
    /\ start = 0
    /\ end > 0
    /\ end < chunk
    /\ results = Range(0, end)

\* C12, as stated: when totalcount = count, getNext(c) and getPrevious(c)
\* are no-ops for every argument c: start, end, chunk, the buffered rows and
\* count are unchanged, nothing is fetched, no request is sent, and the
\* call returns with the warning that all results are held
C12_HavingAllIsNoOp ==
    [][ \A c \in ChunkArgs, f \in Failures, ng \in NegLimits :
          ( /\ count = totalcount
            /\ GetNext(c, f, ng) \/ GetPrevious(c, f) )
          => /\ UNCHANGED <<start, end, chunk, results, rs, count>>
             /\ ~last'.fetched
             /\ last'.reqs = 0
             /\ last'.exc = "ok"
             /\ "have_all" \in last'.warns ]_vars

\* C13, as stated: getSubset(start, limit) takes a negative start as 0 and
\* an omitted, zero or negative limit as the current chunk, sets end to
\* start + limit without cutting it at totalcount, and succeeds also past
\* the end of the result set, with the rows of the window that exist
\* (possibly none) (for a controller whose data source or service answers)
C13_SubsetPositionsAbsolutely ==
    [][ \A s \in StartArgs, l \in ChunkArgs :
          ( /\ mode \in {"local", "remote"}
            /\ urlmap
            /\ returntype = ""
            /\ GetSubset(s, l, FALSE) )
          => LET limit == IF l <= 0 THEN chunk ELSE l
             IN  /\ start' = Max(0, s)
                 /\ end' = Max(0, s) + limit
                 /\ chunk' = limit
                 /\ last'.exc = "ok"
                 /\ results' = Range(Min(start', totalcount),
                                     Min(end', totalcount)) ]_vars

\* C14, as stated: in remote mode, a getNext, getPrevious, getSubset, sort or
\* getAll whose request fails in transport raises an error that names the
\* operation, has sent one request, and leaves the buffered rows, count,
\* start, end, chunk, sort column and order as they were before the call
C14_TransportFailureLeavesState ==
    [][ \A s \in 0..MaxStart, name \in SortNames, ord \in Orders :
          ( /\ mode = "remote"
            /\ urlmap
            /\ \/ count # totalcount /\ GetNext(0, TRUE, FALSE)
               \/ count # totalcount /\ GetPrevious(0, TRUE)
               \/ GetSubset(s, 0, TRUE)
               \/ Sort(name, ord, TRUE)
               \/ GetAll(TRUE) )
          => /\ last'.exc = "MarvinError"
             /\ last'.msg = last'.op \/ (last'.op = "sort" /\ last'.msg = "Sort")
             /\ last'.reqs = 1
             /\ UNCHANGED <<results, rs, count, start, end, chunk,
                            sortcol, order>> ]_vars

\* C15, as stated for the calls that raise in neither mode: a local and a
\* remote controller of the same result set that have answered the same
\* sequence of sort, getNext, getPrevious, getSubset and getAll calls, none
\* of which raised, held the same rows in the same order and the same
\* count, start and end after every call
C15_LocalAndRemoteAgree ==
    ( \A i \in 1..Len(replay.got) :
         ~replay.got[i].raised /\ ~replay.seen[i].raised )
    => \A i \in 1..Len(replay.got) : replay.got[i] = replay.seen[i]


\* C16, as stated for the remote calls that leave rows in the buffer: after a
\* successful getNext, getPrevious, getSubset, sort or getAll that fetched, the
\* window start is the index of the ResultSet and the first buffered row is the
\* row at position start of the full result in the active order.
C16_StartIsBufferIndex ==
    ( /\ mode = "remote"
      /\ last.op \in {"getNext", "getPrevious", "getSubset", "sort", "getAll"}
      /\ last.exc = "ok" /\ last.fetched
      /\ results # <<>> )
    => /\ rs.isSet
       /\ start = rs.index
       /\ start < totalcount
       /\ results[1] = ServerRows(sortcol, order)[start + 1]

\* C17: in remote mode, every request of getNext, getPrevious, getSubset and
\* getAll sent after a sort call that succeeded carries the column and the
\* direction of that sort call, and every request sent before any sort call
\* carries no sort column.
C17_RequestsCarryActiveSort ==
    ( /\ mode = "remote"
      /\ last.op \in {"getNext", "getPrevious", "getSubset", "getAll"}
      /\ sent.req # NoRequest )
    => /\ sent.sorted = "ok" =>
            sent.req.sort = sent.col /\ sent.req.order = sent.ord
       /\ sent.sorted = "none" =>
            sent.req.sort = "" /\ sent.req.order = ""

\* a paging request sent after a descending sort that succeeded
C17_Witness ==
    /\ mode = "remote"
    /\ last.op \in {"getNext", "getPrevious", "getSubset"}
    /\ last.exc = "ok"
    /\ sent.sorted = "ok" /\ sent.ord = "desc"
    /\ sent.req.route = "getsubset" /\ sent.req.sort = "z"
    /\ sent.req.order = "desc"

\* C18, its last clause: on a controller constructed with a returntype, a
\* getNext, getPrevious or getSubset that fetched its window does not fail in
\* the conversion step that ends the call.
C18_ConversionStepDoesNotFail ==
    ( /\ returntype # ""
      /\ last.op \in {"getNext", "getPrevious", "getSubset"}
      /\ last.fetched
      /\ results # <<>> )
    => last.exc # "TypeError"

\* C19: on a remote controller with no route map, every sort, getNext,
\* getPrevious, getSubset and getAll that has rows to fetch raises the
\* MarvinError of the missing route map, sends no request, and leaves the
\* window, the chunk, the rows and the sort column and direction as they were.
C19_NoRouteMapFailsCleanly ==
    [][ ( /\ mode = "remote" /\ ~urlmap
          /\ last'.op \in {"sort", "getNext", "getPrevious", "getSubset",
                           "getAll"}
          /\ "have_all" \notin last'.warns )
        => /\ last'.exc = "MarvinError"
           /\ last'.reqs = 0
           /\ UNCHANGED <<start, end, chunk, count, results, rs, sortcol,
                          order>> ]_vars

\* C20: merge_subsets on subsets with rows whose fields are all the columns of
\* the registry returns, the buffer is then the rows of the subsets in input
\* order, each subset's rows in their order, count is the sum of the subsets'
\* lengths, and totalcount, start and end are unchanged.
C20_MergeConcatenatesInOrder ==
    [][ \A ss \in SubsetLists :
          ( /\ MergeSubsets(ss)
            /\ \A i \in 1..Len(ss) :
                  ss[i].rows # <<>> /\ ss[i].fields = columns )
          => LET RECURSIVE Before(_)
                 Before(i) == IF i = 1 THEN 0
                              ELSE Before(i - 1) + Len(ss[i - 1].rows)
             IN  /\ last'.exc = "ok"
                 /\ Len(results') = Before(Len(ss) + 1)
                 /\ \A i \in 1..Len(ss) : \A k \in 1..Len(ss[i].rows) :
                       results'[Before(i) + k] = ss[i].rows[k]
                 /\ count' = Before(Len(ss) + 1)
                 /\ UNCHANGED <<totalcount, start, end>> ]_vars

\* two subsets of one and two rows merged into a controller whose window has
\* moved off the first page
C20_Witness ==
    /\ last.op = "merge_subsets" /\ last.exc = "ok"
    /\ results = <<0, 1, 0>>
    /\ count = 3
    /\ start > 0
    /\ totalcount > 3

\* C21: a save that can write its file, on a path where a file exists:
\* without overwrite it warns, raises nothing, returns no path and leaves the
\* file as it was; with overwrite it replaces the file by the archive of the
\* controller and returns the path.
C21_SaveRespectsOverwrite ==
    [][ \A ow \in BOOLEAN :
          ( /\ Save(ow, FALSE)
            /\ archive.kind \in {"foreign", "pickle"} )
          => IF ~ow
             THEN /\ last'.exc = "ok"
                  /\ "file_exists" \in last'.warns
                  /\ last'.msg # "path"
                  /\ UNCHANGED archive
             ELSE /\ last'.exc = "ok"
                  /\ last'.msg = "path"
                  /\ archive'.kind = "pickle"
                  /\ archive'.obj[1].results = results ]_vars

\* C22: a save that writes the archive of a controller whose query is a live
\* query handle, not a string, stores the query as its string (what showQuery
\* returned before the save) and stores no query object.
C22_ArchiveHoldsQueryString ==
    [][ \A ow \in BOOLEAN :
          ( /\ Save(ow, FALSE)
            /\ query = "handle"
            /\ last'.exc = "ok" /\ last'.msg = "path" )
          => /\ archive'.kind = "pickle"
             /\ archive'.obj[1].query = "string"
             /\ ~archive'.obj[1].queryobj ]_vars

\* C23: a save that gets as far as writing the archive (the path is no
\* directory, and is free or may be overwritten) and fails to write it, because
\* the controller cannot be pickled or the write fails, raises the MarvinError
\* of the pickling step and leaves no file at the path.
C23_FailedSaveLeavesNoFile ==
    [][ \A ow \in BOOLEAN, io \in BOOLEAN :
          ( /\ Save(ow, io)
            /\ archive.kind # "dir"
            /\ archive.kind = "none" \/ ow
            /\ io \/ PickleFails(results) )
          => /\ last'.exc = "MarvinError"
             /\ last'.msg = "pickling"
             /\ archive'.kind = "none" ]_vars

\* a save over an existing file failed on a controller with buffered rows
C23_Witness ==
    /\ last.op = "save" /\ last.exc = "MarvinError" /\ last.msg = "pickling"
    /\ results # <<>>
    /\ archive = NoFile
    /\ ~queryobj

\* C24: convertToTool with a tool type that is named and is none of cube,
\* spaxel, maps, rss, modelcube raises, and leaves self.objects and the buffer
\* (rows, ResultSet attributes, count) as they were.
C24_UnknownToolTypeFailsCleanly ==
    [][ \A tooltype \in ToolTypes, limit \in Limits :
        \A pick \in Picks(tooltype) :
          ( /\ ConvertToTool(tooltype, limit, pick)
            /\ tooltype # ""
            /\ tooltype \notin {"cube", "spaxel", "maps", "rss", "modelcube"} )
          => /\ last'.exc = "AssertionError"
             /\ UNCHANGED <<objects, results, rs, count>> ]_vars

\* an unknown tool type was refused on a controller that holds objects
C24_Witness ==
    /\ last.op = "convertToTool" /\ last.exc = "AssertionError"
    /\ objects # <<>>
    /\ returntype \in ToolList
    /\ Len(objects) = Len(results)

\* C25, as stated for limits that are not negative: a convertToTool that
\* returns, for a tool type of the list and a limit (or none), leaves in
\* self.objects one object per buffered row up to the limit, object i built
\* from buffered row i, and leaves the rows, their order and count unchanged.
C25_ObjectsParallelToBuffer ==
    [][ \A tooltype \in ToolList, limit \in Limits :
        \A pick \in Picks(tooltype) :
          ( /\ ConvertToTool(tooltype, limit, pick)
            /\ limit >= 0
            /\ last'.exc = "ok" )
          => /\ Len(objects') = Min(limit, Len(results))
             /\ \A i \in 1..Len(objects') :
                   /\ objects'[i].kind = tooltype
                   /\ objects'[i].plateifu = Val("plateifu", results[i])
             /\ UNCHANGED <<results, rs, count>> ]_vars

\* C26: in local and in remote mode (with a route map, no transport failure,
\* no returntype), a getNext on a window that ends at totalcount and a
\* getPrevious on a window that starts at 0 return without raising and with a
\* warning.
C26_BoundariesNeverAbort ==
    [][ /\ \A c \in ChunkArgs, ng \in NegLimits :
             ( /\ GetNext(c, FALSE, ng)
               /\ end = totalcount )
             => last'.exc = "ok" /\ last'.warns # {}
        /\ \A c \in ChunkArgs :
             ( /\ GetPrevious(c, FALSE)
               /\ start = 0 )
             => last'.exc = "ok" /\ last'.warns # {}
      \/ mode \notin {"local", "remote"}
      \/ returntype # ""
      \/ ~urlmap ]_vars

\* C27: no step of the controller removes or alters a column of the registry:
\* the columns it held, those of construction and those a buffer merge added,
\* are still in it, in their places, after the step.
C27_RegistryOnlyGrows ==
    [][ /\ Len(columns') >= Len(columns)
        /\ \A i \in 1..Len(columns) : columns'[i] = columns[i] ]_vars

C29_PagesIsCeilTotalOverChunk ==
    ( /\ last.op \in {"init", "getNext", "getPrevious", "getSubset"}
      /\ last.exc = "ok"
      /\ last.op = "init" \/ last.fetched
      /\ rs.isSet )
    => rs.pages = CeilDiv(totalcount, chunk)

\* C30: no step of getNext, getPrevious, getSubset, sort, getAll,
\* merge_subsets, convertToTool or save changes the search filter, the return
\* parameters, the release or the limit of the controller.
C30_FingerprintNeverChanges ==
    [][ /\ fp'.searchfilter = fp.searchfilter
        /\ fp'.returnparams = fp.returnparams
        /\ fp'.release = fp.release
        /\ fp'.limit = fp.limit ]_vars

\* a controller that has been sorted, converted and merged into was saved
C30_Witness ==
    /\ last.op = "save"
    /\ sortcol = "z"
    /\ objects # <<>>
    /\ ~rs.isSet /\ results = <<1, 0>>
    /\ fp = Fingerprint("nsa.z < 0.1", <<"z">>, "MPL-5", chunk)

\* C31: for every requested column list the row type exists and its fields
\* are the base identity fields in their fixed order followed by the requested
\* names that are not base fields, in request order, no field occurring twice;
\* a row built from a number of values other than the number of fields fails
\* and yields no row.
C31_FieldsAreBaseThenRequested ==
    built # NoBuilt =>
        /\ built.type.exc = "ok"
        /\ built.type.fields =
               DefaultFields \o SelectNotIn(built.params, SeqToSet(DefaultFields))
        /\ \A i, j \in 1..Len(built.type.fields) :
               i # j => built.type.fields[i] # built.type.fields[j]
        /\ Len(built.raw) # Len(built.type.fields) =>
               built.row.exc = "TypeError" /\ built.row.vals = <<>>

\* C37: for every requested list of one or more distinct names and every raw
\* row holding one value per requested column in request order, the row is
\* built and the field named after each requested column holds the value
\* supplied for that column, whatever the place of the base identity fields
\* in the request.
C37_RowMapsColumnToItsValue ==
    (/\ built.params # <<>>
     /\ Len(built.raw) = Len(built.params)
     /\ \A i, j \in 1..Len(built.params) :
            i # j => built.params[i] # built.params[j])
    => /\ built.row.exc = "ok"
       /\ \A i \in 1..Len(built.params) :
              FieldValue(built.type, built.row, built.params[i]) = built.raw[i]

\* C32: a lookup by a column name returns the list of that column's values
\* over all rows of the set in their order when the set has two or more rows,
\* the bare value when it has exactly one row, and raises when it has none; a
\* lookup by an integer position within the set returns the row there.
C32_LookupByNameAndPosition ==
    LET n == Len(looked.rows)
        k == looked.key
        a == looked.answer
    IN  looked # NoLooked =>
            /\ (k.str /\ k.name \in SeqToSet(looked.cols)) =>
                   /\ n >= 2 => a = FoundAll(
                                    [i \in 1..n |-> Val(k.name, looked.rows[i])])
                   /\ n = 1 => a = FoundOne("scalar", Val(k.name, looked.rows[1]))
                   /\ n = 0 => a.exc \notin {"", "ok"}
            /\ (~k.str /\ k.pos \in 0..(n - 1)) =>
                   a = FoundOne("row", looked.rows[k.pos + 1])

C32_Witness ==
    /\ looked.rows = <<2, 0, 1>>
    /\ looked.key = StrKey("plateifu")
    /\ looked.answer = FoundAll(<<2, 0, 1>>)

\* C33: in every state reached by next, previous and subset calls the window
\* satisfies 0 <= start <= end <= max(totalcount, start + chunk), and after a
\* next or a previous call start <= end <= totalcount.
C33_WindowStaysOrdered ==
    /\ 0 <= start /\ start <= end
    /\ end <= Max(totalcount, start + chunk)
    /\ last.op \in {"getNext", "getPrevious"} =>
           start <= end /\ end <= totalcount

\* C34: from a controller holding [0, chunk) with 0 < chunk < totalcount,
\* getNext() calls without an argument visit non-empty windows each starting
\* at the end of the one before, the window ends before totalcount until
\* ceil(totalcount / chunk) - 1 calls have returned and at totalcount then,
\* and by then the rows fetched are the rows 0 .. totalcount - 1, once each.
C34_NextWalksEveryRowOnce ==
    LET k       == Len(walk.windows)
        held(i) == IF i = 0 THEN <<0, chunk>> ELSE walk.windows[i]
    IN  (0 < chunk /\ chunk < totalcount) =>
            /\ \A i \in 1..k : /\ held(i)[1] < held(i)[2]
                              /\ held(i)[1] = held(i - 1)[2]
            /\ held(k) = <<start, end>>
            /\ k < CeilDiv(totalcount, chunk) - 1 => end < totalcount
            /\ k = CeilDiv(totalcount, chunk) - 1 =>
                   /\ end = totalcount
                   /\ Range(0, chunk) \o walk.rows = AllRows

\* C35: save leaves the controller in memory as it was, whether it wrote the
\* archive, refused to overwrite or raised: the query handle, the rows and
\* the window are unchanged, and a local controller still holds the handle
\* its next, previous, subset and get_all calls fetch from.
C35_SaveLeavesControllerAlone ==
    [][\A overwrite \in BOOLEAN, ioFail \in BOOLEAN :
           Save(overwrite, ioFail) =>
               /\ query' = query /\ queryobj' = queryobj
               /\ results' = results /\ rs' = rs /\ count' = count
               /\ start' = start /\ end' = end /\ chunk' = chunk
               /\ mode = "local" =>
                      FetchWindow(0, 1, FALSE, FALSE)'.exc = "ok"]_vars

\* C36: whenever a next, previous or subset call changes (start, end), the
\* same call fetched the buffer anew and the buffer holds exactly the rows of
\* [start, end), in every mode a controller can be constructed with.
C36_WindowMovesOnlyWithFetch ==
    [][(/\ <<start', end'>> # <<start, end>>
        /\ last'.op \in {"getNext", "getPrevious", "getSubset"})
       => /\ last'.fetched
          /\ results' = Slice(start', end')]_vars

\* C38: in every state after construction the controller's count is the
\* number of rows in its buffer, after next, previous, subset, sort, get_all
\* and merge_subsets alike.
C38_CountIsBufferLength == count = Len(results)

C38_Witness ==
    /\ mode = "remote"
    /\ last.op = "getAll" /\ last.exc = "ok"
    /\ totalcount = MaxTotal
    /\ count = totalcount
    /\ Len(results) = totalcount
====
